---------------------------- MODULE Spec2Model ----------------------------
(***************************************************************************)
(* State-machine model of the syllabus RAG pipeline of Syllabuddy:         *)
(*   chunkText, cosineSimilarity, generateEmbeddings, indexSyllabus,       *)
(*   removeSyllabusFromIndex, queryRAG (services/ragPipeline, printed in   *)
(*   src/server/src/services/azureAI.ts lines 135-235) and the upload and  *)
(*   delete handlers of src/server/src/routes/syllabus.ts.                 *)
(*                                                                         *)
(* A text is a sequence of one-character strings; " " is the whitespace    *)
(* character.  A vector is a sequence of integers.  A cosine score is kept *)
(* exactly, as the pair (dot product, squared magnitude), and compared by  *)
(* cross-multiplication; floating-point rounding is not modelled.          *)
(***************************************************************************)
EXTENDS Integers, Sequences, FiniteSets, TLC

VARIABLES
    ck,         \* one run of chunkText: its arguments, locals and position
    rk,         \* one run of the ranking half of queryRAG (lines 223-234)
    store,      \* the Embedding collection, in insertion order
    call,       \* per request slot: the ragPipeline call in progress
    everIndexed,\* history: <<userId, syllabusId, text>> of every record ever inserted
    ncalls,     \* number of calls / requests started so far
    syllabi,    \* the Syllabus collection
    events,     \* the CalendarEvent collection
    req,        \* per request slot: the HTTP handler in progress
    nextId,     \* number of Syllabus ids handed out so far
    removedDone,\* history: <<userId, syllabusId>> of completed removeSyllabusFromIndex calls
    deleted,    \* history: ids of the Syllabus records findOneAndDelete has removed
    friendships \* the Friendship collection

vars == <<ck, rk, store, call, everIndexed, ncalls, syllabi, events, req, nextId, removedDone, deleted,
          friendships>>

-----------------------------------------------------------------------------
(* Bounds of the model *)

MaxTextLen == 7         \* longest text (in characters) given to chunkText alone
MaxChunkSize == 3       \* largest chunkSize / overlap argument tried
MaxIter == 6            \* cap on the passes of one chunkText loop

Chars == {"a", "b", " "}

-----------------------------------------------------------------------------
(* Strings and arrays as JavaScript treats them *)

IsSpace(ch) == ch = " "

Min(a, b) == IF a < b THEN a ELSE b
Max(a, b) == IF a > b THEN a ELSE b

\* Array.prototype.slice(start, end) on a 0-based array held as a 1-based sequence
Slice(arr, start, end) ==
    LET len == Len(arr)
        from == IF start < 0 THEN Max(len + start, 0) ELSE Min(start, len)
        to == IF end < 0 THEN Max(len + end, 0) ELSE Min(end, len)
    IN  IF from >= to THEN << >> ELSE SubSeq(arr, from + 1, to)

\* String.prototype.split(/\s+/): the pieces between maximal whitespace runs,
\* an empty piece before a leading run and after a trailing run; "" gives [""].
RECURSIVE SplitFrom(_, _, _)
SplitFrom(text, k, acc) ==
    IF k > Len(text) THEN acc
    ELSE IF IsSpace(text[k])
         THEN IF k > 1 /\ IsSpace(text[k - 1])
              THEN SplitFrom(text, k + 1, acc)
              ELSE SplitFrom(text, k + 1, Append(acc, << >>))
         ELSE SplitFrom(text, k + 1,
                        [acc EXCEPT ![Len(acc)] = Append(@, text[k])])

Split(text) == SplitFrom(text, 1, << << >> >>)

\* Array.prototype.join(' ')
RECURSIVE Join(_)
Join(words) ==
    IF Len(words) = 0 THEN << >>
    ELSE IF Len(words) = 1 THEN words[1]
    ELSE words[1] \o <<" ">> \o Join(Tail(words))

\* chunk.trim().length > 0
NonBlank(s) == \E k \in 1..Len(s) : ~IsSpace(s[k])

IsBlank(s) == ~NonBlank(s)

-----------------------------------------------------------------------------
(* chunkText (azureAI.ts 139-155) *)

\* line 143: the single-chunk early return
ReturnsWhole(words, chunkSize) == Len(words) <= chunkSize

\* line 147: the loop's increment
NextStart(i, chunkSize, overlap) == i + (chunkSize - overlap)

\* lines 148-151: one pass of the loop body
PushWindow(chunks, words, i, chunkSize) ==
    LET chunk == Join(Slice(words, i, i + chunkSize))
    IN  IF NonBlank(chunk) THEN Append(chunks, chunk) ELSE chunks

\* the whole loop, for arguments with which it ends (overlap < chunkSize)
RECURSIVE ChunkLoop(_, _, _, _, _)
ChunkLoop(words, i, chunkSize, overlap, chunks) ==
    IF i < Len(words)
    THEN ChunkLoop(words, NextStart(i, chunkSize, overlap), chunkSize, overlap,
                   PushWindow(chunks, words, i, chunkSize))
    ELSE chunks

chunkText(text, chunkSize, overlap) ==
    LET words == Split(text)
    IN  IF ReturnsWhole(words, chunkSize) THEN <<text>>
        ELSE ChunkLoop(words, 0, chunkSize, overlap, << >>)

\* all texts of at most n characters
TextsUpTo(n) == UNION { [1..k -> Chars] : k \in 0..n }

ckOff == [pc |-> "off"]

\* the state of a chunkText call on entry
ChunkInit ==
    ck \in { [pc |-> "start", text |-> t, chunkSize |-> c, overlap |-> o,
              words |-> << >>, i |-> 0, iter |-> 0, chunks |-> << >>] :
             t \in TextsUpTo(MaxTextLen), c \in 1..MaxChunkSize, o \in 0..MaxChunkSize }

\* lines 140-145
ChunkSplit ==
    /\ ck.pc = "start"
    /\ LET words == Split(ck.text)
       IN  IF ReturnsWhole(words, ck.chunkSize)
           THEN ck' = [ck EXCEPT !.pc = "done", !.words = words, !.chunks = <<ck.text>>]
           ELSE ck' = [ck EXCEPT !.pc = "loop", !.words = words, !.i = 0]
    /\ UNCHANGED <<rk, store, call, everIndexed, ncalls, syllabi, events, req, nextId, removedDone, deleted, friendships>>

\* lines 147-152, one iteration
ChunkIterate ==
    /\ ck.pc = "loop"
    /\ ck.i < Len(ck.words)
    /\ ck.iter < MaxIter
    /\ ck' = [ck EXCEPT !.chunks = PushWindow(ck.chunks, ck.words, ck.i, ck.chunkSize),
                        !.i = NextStart(ck.i, ck.chunkSize, ck.overlap),
                        !.iter = ck.iter + 1]
    /\ UNCHANGED <<rk, store, call, everIndexed, ncalls, syllabi, events, req, nextId, removedDone, deleted, friendships>>

\* line 147 exit and line 154
ChunkReturn ==
    /\ ck.pc = "loop"
    /\ ~(ck.i < Len(ck.words))
    /\ ck' = [ck EXCEPT !.pc = "done"]
    /\ UNCHANGED <<rk, store, call, everIndexed, ncalls, syllabi, events, req, nextId, removedDone, deleted, friendships>>

-----------------------------------------------------------------------------
(* cosineSimilarity (azureAI.ts 158-171) *)

MaxCand == 3            \* longest listing given to the ranking alone
MaxTopK == 3            \* largest topK tried

\* vectors the Embedding Client may return; lengths 1 and 2 stand for two
\* embedding deployments of different dimensionality
RankVectors == { <<1>>, <<1, 0>>, <<0, 1>>, <<1, 1>>, <<2, 1>>, <<-1, 0>>, <<0, 0>> }

NaN == [kind |-> "nan"]
Num(dot, mag2) == [kind |-> "num", dot |-> dot, mag2 |-> mag2]

RECURSIVE SumTo(_, _, _)
\* sum over i in 1..n of a[i] * b[i]
SumTo(a, b, n) == IF n = 0 THEN 0 ELSE SumTo(a, b, n - 1) + a[n] * b[n]

\* the quotient without the magnitude === 0 test of line 170: 0 / 0 is NaN
cosineSimilarity_Unguarded(a, b) ==
    IF Len(b) < Len(a) THEN NaN
    ELSE LET dotProduct == SumTo(a, b, Len(a))
             normA == SumTo(a, a, Len(a))
             normB == SumTo(b, b, Len(a))
         IN  IF normA * normB = 0 THEN NaN
             ELSE Num(dotProduct, normA * normB)

\* The loop of lines 163-167 runs over a.length and reads b[i] whatever b's
\* length: past b's end b[i] is undefined and every sum it enters is NaN;
\* components of b past a's end are never read.  The score dot / magnitude is
\* kept as (dot, magnitude squared); magnitude === 0 gives the score 0.
cosineSimilarity(a, b) ==
    IF Len(b) < Len(a) THEN NaN
    ELSE LET dotProduct == SumTo(a, b, Len(a))
             normA == SumTo(a, a, Len(a))
             normB == SumTo(b, b, Len(a))
         IN  IF normA * normB = 0 THEN Num(0, 1)
             ELSE Num(dotProduct, normA * normB)

Sgn(x) == IF x > 0 THEN 1 ELSE IF x < 0 THEN -1 ELSE 0

\* s1 < s2 for two numeric scores: compare sgn(dot) * dot^2 / mag2
ScoreLess(s1, s2) ==
    Sgn(s1.dot) * s1.dot * s1.dot * s2.mag2 < Sgn(s2.dot) * s2.dot * s2.dot * s1.mag2

ScoreEq(s1, s2) == ~ScoreLess(s1, s2) /\ ~ScoreLess(s2, s1)

-----------------------------------------------------------------------------
(* The ranking of queryRAG (azureAI.ts 223-234) *)

\* lines 224-229
ScoreOne(queryEmbedding, emb) ==
    [text |-> emb.text, className |-> emb.className, syllabusId |-> emb.syllabusId,
     score |-> cosineSimilarity(queryEmbedding, emb.vector)]

ScoreAll(queryEmbedding, allEmbeddings) ==
    [k \in 1..Len(allEmbeddings) |-> ScoreOne(queryEmbedding, allEmbeddings[k])]

\* the comparator with its operands exchanged: a.score - b.score
GoesAfter_Ascending(a, b) == ScoreLess(b.score, a.score)

\* line 232, the comparator (a, b) => b.score - a.score is positive: a goes after b
GoesAfter(a, b) == ScoreLess(a.score, b.score)

\* insert x behind every element it does not have to precede (a stable sort)
RECURSIVE InsertSorted(_, _)
InsertSorted(sorted, x) ==
    IF Len(sorted) = 0 THEN <<x>>
    ELSE IF GoesAfter(Head(sorted), x) THEN <<x>> \o sorted
    ELSE <<Head(sorted)>> \o InsertSorted(Tail(sorted), x)

RECURSIVE StableSort(_)
StableSort(arr) ==
    IF Len(arr) = 0 THEN << >>
    ELSE InsertSorted(StableSort(SubSeq(arr, 1, Len(arr) - 1)), arr[Len(arr)])

HasNaN(scored) == \E k \in 1..Len(scored) : scored[k].score.kind = "nan"

Orderings(arr) ==
    { [k \in 1..Len(arr) |-> arr[f[k]]] :
        f \in { g \in [1..Len(arr) -> 1..Len(arr)] :
                  \A x, y \in 1..Len(arr) : x # y => g[x] # g[y] } }

\* Array.prototype.sort: stable for a consistent comparator; with a NaN score
\* the comparator is inconsistent and the order is implementation-defined.
SortOutcomes(scored) ==
    IF HasNaN(scored) THEN Orderings(scored) ELSE { StableSort(scored) }

\* line 234
TopSlice(sorted, topK) == Slice(sorted, 0, topK)

rkOff == [pc |-> "off"]

CandText(k) == [j \in 1..k |-> "a"]

Candidate(k, v) ==
    [userId |-> "u1", syllabusId |-> "d1", className |-> "CS 101",
     chunkIndex |-> k - 1, text |-> CandText(k), vector |-> v]

\* a query vector, a non-empty listing and a topK, as they stand at line 223
RankInit ==
    rk \in { [pc |-> "score", queryEmbedding |-> q,
              allEmbeddings |-> [k \in 1..n |-> Candidate(k, vs[k])],
              topK |-> K, scored |-> << >>, result |-> << >>] :
             q \in RankVectors, n \in 1..MaxCand, vs \in [1..MaxCand -> RankVectors],
             K \in -1..MaxTopK }

RankScore ==
    /\ rk.pc = "score"
    /\ rk' = [rk EXCEPT !.pc = "sort",
                        !.scored = ScoreAll(rk.queryEmbedding, rk.allEmbeddings)]
    /\ UNCHANGED <<ck, store, call, everIndexed, ncalls, syllabi, events, req, nextId, removedDone, deleted, friendships>>

RankSort ==
    /\ rk.pc = "sort"
    /\ \E sorted \in SortOutcomes(rk.scored) :
          rk' = [rk EXCEPT !.pc = "slice", !.scored = sorted]
    /\ UNCHANGED <<ck, store, call, everIndexed, ncalls, syllabi, events, req, nextId, removedDone, deleted, friendships>>

RankSlice ==
    /\ rk.pc = "slice"
    /\ rk' = [rk EXCEPT !.pc = "done", !.result = TopSlice(rk.scored, rk.topK)]
    /\ UNCHANGED <<ck, store, call, everIndexed, ncalls, syllabi, events, req, nextId, removedDone, deleted, friendships>>

-----------------------------------------------------------------------------
(* The Embedding collection and the ragPipeline calls *)

MaxCalls == 3           \* calls (requests) started in one behaviour

\* chunkText's defaults (500, 50), generateEmbeddings' batchSize (16) and the
\* topK of a query, scaled down so that short texts span several windows and
\* several batches
DefaultChunkSize == 2
DefaultOverlap == 1
BatchSize == 2
QueryTopK == 2

\* request slots: two calls (requests) may be in flight together
Procs == {1, 2}
Users == {"u1", "u2"}
Docs == {"d1", "d2"}
ClassNames == {"CS 101"}
Question == <<"a", "b">>

\* the texts handed to indexSyllabus: empty, whitespace only, one word, three words
IndexTexts == { << >>, <<" ">>, <<"a">>, <<"a", " ", "b", " ", "a">> }

\* the texts each owner has: u2 only the one-word text
TextsOf(u) == IF u = "u1" THEN IndexTexts ELSE { <<"a">> }

\* What the embedding deployment answers for a text: a fixed vector per text,
\* different for the different chunks and for the question.
EmbedOf(t) ==
    IF t = <<"a", " ", "b">> THEN <<1, 0>>
    ELSE IF t = <<"b", " ", "a">> THEN <<0, 1>>
    ELSE IF t = <<"a">> THEN <<1, 1>>
    ELSE IF t = Question THEN <<2, 1>>
    ELSE <<-1, 0>>

EmbedBatch(batch) == [k \in 1..Len(batch) |-> EmbedOf(batch[k])]

idleCall ==
    [op |-> "none", pc |-> "idle", userId |-> "u1", syllabusId |-> "d1",
     className |-> "CS 101", text |-> << >>, chunks |-> << >>, i |-> 0,
     allEmbeddings |-> << >>, log |-> << >>, inserted |-> << >>,
     listing |-> << >>, result |-> << >>, value |-> 0, error |-> "none",
     issued |-> 0, removedAtCall |-> {}]

Free(p) == call[p].pc \in {"idle", "returned", "threw"}

\* a new call takes the lowest free slot (the slots are interchangeable)
Takes(p) == Free(p) /\ \A q \in Procs : q < p => ~Free(q)

\* a find without the userId filter
FindByUser_AnyOwner(coll, userId) == coll

\* Embedding.find({ userId }).lean() (line 214)
FindByUser(coll, userId) == SelectSeq(coll, LAMBDA e : e.userId = userId)

\* a deleteMany whose filter names the owner only
DeleteMatching_ByOwner(coll, userId, syllabusId) ==
    SelectSeq(coll, LAMBDA e : e.userId # userId)

\* a deleteMany whose filter names the document only
DeleteMatching_ByDocument(coll, userId, syllabusId) ==
    SelectSeq(coll, LAMBDA e : e.syllabusId # syllabusId)

\* Embedding.deleteMany({ userId, syllabusId }) (line 204)
DeleteMatching(coll, userId, syllabusId) ==
    SelectSeq(coll, LAMBDA e : ~(e.userId = userId /\ e.syllabusId = syllabusId))

\* docs that all carry the id of one document
BuildDocs_SharedDocument(userId, syllabusId, className, chunks, embeddings) ==
    [k \in 1..Len(chunks) |->
        [userId |-> userId, syllabusId |-> "d1", className |-> className,
         chunkIndex |-> k - 1, text |-> chunks[k], vector |-> embeddings[k]]]

\* lines 188-195
BuildDocs(userId, syllabusId, className, chunks, embeddings) ==
    [k \in 1..Len(chunks) |->
        [userId |-> userId, syllabusId |-> syllabusId, className |-> className,
         chunkIndex |-> k - 1, text |-> chunks[k], vector |-> embeddings[k]]]

\* embeddingSchema: text is a required String, which an empty string fails;
\* Mongoose validates every document before insertMany writes any
Valid(docs) == \A k \in 1..Len(docs) : docs[k].text # << >>

\* a slice without its end: everything from i on
NextBatch_Unbounded(texts, i) == Slice(texts, i, Len(texts))

\* line 44
NextBatch(texts, i) == Slice(texts, i, i + BatchSize)

\* unshift in place of push: a later batch lands in front of an earlier one
PushAll_Prepends(allEmbeddings, vectors) == vectors \o allEmbeddings

\* line 49
PushAll(allEmbeddings, vectors) == allEmbeddings \o vectors

\* line 182
NothingToIndex(chunks) == Len(chunks) = 0

\* indexSyllabus up to its first await (lines 180-185, 36-45)
IndexEnter(p, u, d, c, t) ==
    LET chunks == chunkText(t, DefaultChunkSize, DefaultOverlap)
        fresh == [idleCall EXCEPT !.op = "index", !.userId = u, !.syllabusId = d,
                                  !.className = c, !.text = t, !.chunks = chunks]
    IN  IF NothingToIndex(chunks)
        THEN [fresh EXCEPT !.pc = "returned", !.value = 0]
        ELSE [fresh EXCEPT !.pc = "embed", !.i = 0, !.issued = 1]

\* generateEmbeddings after a batch has been answered (lines 49, 43, 52) and
\* indexSyllabus up to its insertMany (lines 188-197)
AfterBatch(c, vectors) ==
    LET all == PushAll(c.allEmbeddings, vectors)
        i == c.i + BatchSize
        logged == Append(c.log, [input |-> NextBatch(c.chunks, c.i), output |-> vectors])
    IN  IF i < Len(c.chunks)
        THEN [c EXCEPT !.allEmbeddings = all, !.i = i, !.log = logged, !.issued = @ + 1]
        ELSE [c EXCEPT !.allEmbeddings = all, !.i = i, !.log = logged, !.pc = "insert"]

\* the provider answers the outstanding batch with one vector per input
IndexEmbedOk(p) ==
    /\ call[p].op = "index" /\ call[p].pc = "embed"
    /\ call' = [call EXCEPT ![p] =
                  AfterBatch(call[p], EmbedBatch(NextBatch(call[p].chunks, call[p].i)))]
    /\ UNCHANGED <<ck, rk, store, everIndexed, ncalls, syllabi, events, req, nextId, removedDone, deleted, friendships>>

\* a failed batch after which the chunks embedded so far are inserted all the same
EmbedFailure_KeepsEmbedded(c) ==
    [store |-> store \o BuildDocs(c.userId, c.syllabusId, c.className,
                                  SubSeq(c.chunks, 1, Len(c.allEmbeddings)), c.allEmbeddings),
     call |-> [c EXCEPT !.pc = "threw", !.error = "embedding"]]

\* what a failed batch leaves behind: the await of line 45 rejects, so does
\* the await of line 185, and indexSyllabus ends before line 188
EmbedFailure(c) ==
    [store |-> store, call |-> [c EXCEPT !.pc = "threw", !.error = "embedding"]]

\* the provider call fails (or getClient throws)
IndexEmbedFail(p) ==
    /\ call[p].op = "index" /\ call[p].pc = "embed"
    /\ LET out == EmbedFailure(call[p])
       IN  /\ store' = out.store
           /\ call' = [call EXCEPT ![p] = out.call]
    /\ UNCHANGED <<ck, rk, everIndexed, ncalls, syllabi, events, req, nextId, removedDone, deleted, friendships>>

DocsOf(c) == BuildDocs(c.userId, c.syllabusId, c.className, c.chunks, c.allEmbeddings)

Keys(docs) == { <<docs[k].userId, docs[k].syllabusId, docs[k].text>> : k \in 1..Len(docs) }

\* Embedding.insertMany(docs) succeeds (lines 197-199)
IndexInsertOk(p) ==
    /\ call[p].op = "index" /\ call[p].pc = "insert"
    /\ Valid(DocsOf(call[p]))
    /\ store' = store \o DocsOf(call[p])
    /\ everIndexed' = everIndexed \cup Keys(DocsOf(call[p]))
    /\ call' = [call EXCEPT ![p] = [@ EXCEPT !.pc = "returned", !.inserted = DocsOf(call[p]),
                                              !.value = Len(call[p].chunks)]]
    /\ UNCHANGED <<ck, rk, ncalls, syllabi, events, req, nextId, removedDone, deleted, friendships>>

\* Embedding.insertMany(docs) fails: validation fails before any write; a
\* write error of the ordered bulk insert leaves the documents before it
IndexInsertFail(p) ==
    /\ call[p].op = "index" /\ call[p].pc = "insert"
    /\ \E k \in 0..(Len(call[p].chunks) - 1) :
          /\ ~Valid(DocsOf(call[p])) => k = 0
          /\ store' = store \o SubSeq(DocsOf(call[p]), 1, k)
          /\ everIndexed' = everIndexed \cup Keys(SubSeq(DocsOf(call[p]), 1, k))
          /\ call' = [call EXCEPT ![p] = [@ EXCEPT !.pc = "threw", !.error = "store",
                                                    !.inserted = SubSeq(DocsOf(call[p]), 1, k)]]
    /\ UNCHANGED <<ck, rk, ncalls, syllabi, events, req, nextId, removedDone, deleted, friendships>>

\* removeSyllabusFromIndex up to its await (line 204)
RemoveEnter(p, u, d) ==
    [idleCall EXCEPT !.op = "remove", !.pc = "delete", !.userId = u, !.syllabusId = d,
                     !.removedAtCall = removedDone]

\* the records deleteMany's filter matches
Matching(coll, userId, syllabusId) ==
    SelectSeq(coll, LAMBDA e : e.userId = userId /\ e.syllabusId = syllabusId)

\* the collection without the first record the filter matches
DeleteFirstMatching(coll, userId, syllabusId) ==
    LET first == CHOOSE k \in 1..Len(coll) :
                    /\ coll[k].userId = userId /\ coll[k].syllabusId = syllabusId
                    /\ \A j \in 1..(k - 1) :
                          ~(coll[j].userId = userId /\ coll[j].syllabusId = syllabusId)
    IN  SubSeq(coll, 1, first - 1) \o SubSeq(coll, first + 1, Len(coll))

\* deleteMany is issued without a session or transaction (line 204): MongoDB
\* deletes the matching documents one by one, each delete atomic, the whole
\* not isolated from other operations.  One document of several is deleted.
RemoveSome(p) ==
    /\ call[p].op = "remove" /\ call[p].pc = "delete"
    /\ Len(Matching(store, call[p].userId, call[p].syllabusId)) >= 2
    /\ store' = DeleteFirstMatching(store, call[p].userId, call[p].syllabusId)
    /\ call' = [call EXCEPT ![p] = [@ EXCEPT !.i = @ + 1]]
    /\ UNCHANGED <<ck, rk, everIndexed, ncalls, syllabi, events, req, nextId, removedDone, deleted, friendships>>

\* deleteMany resolves: no matching document is left
RemoveOk(p) ==
    /\ call[p].op = "remove" /\ call[p].pc = "delete"
    /\ store' = DeleteMatching(store, call[p].userId, call[p].syllabusId)
    /\ removedDone' = removedDone \cup {<<call[p].userId, call[p].syllabusId>>}
    /\ call' = [call EXCEPT ![p] = [@ EXCEPT !.pc = "returned"]]
    /\ UNCHANGED <<ck, rk, everIndexed, ncalls, syllabi, events, req, nextId, deleted, friendships>>

\* deleteMany rejects; the documents deleted before the failure stay deleted
RemoveFail(p) ==
    /\ call[p].op = "remove" /\ call[p].pc = "delete"
    /\ call' = [call EXCEPT ![p] = [@ EXCEPT !.pc = "threw", !.error = "store"]]
    /\ UNCHANGED <<ck, rk, store, everIndexed, ncalls, syllabi, events, req, nextId, removedDone, deleted, friendships>>

\* queryRAG up to its first await (line 214)
QueryEnter(p, u) ==
    [idleCall EXCEPT !.op = "query", !.pc = "find", !.userId = u, !.text = Question,
                     !.removedAtCall = removedDone]

\* queryRAG without the early return of lines 216-218
AfterFind_AlwaysEmbeds(c, listing) ==
    [c EXCEPT !.pc = "embed", !.listing = listing, !.issued = 1]

\* lines 216-221: with an empty listing return [], else embed the question
AfterFind(c, listing) ==
    IF Len(listing) = 0
    THEN [c EXCEPT !.pc = "returned", !.listing = listing, !.result = << >>]
    ELSE [c EXCEPT !.pc = "embed", !.listing = listing, !.issued = 1]

QueryFind(p) ==
    /\ call[p].op = "query" /\ call[p].pc = "find"
    /\ call' = [call EXCEPT ![p] = AfterFind(call[p], FindByUser(store, call[p].userId))]
    /\ UNCHANGED <<ck, rk, store, everIndexed, ncalls, syllabi, events, req, nextId, removedDone, deleted, friendships>>

QueryFindFail(p) ==
    /\ call[p].op = "query" /\ call[p].pc = "find"
    /\ call' = [call EXCEPT ![p] = [@ EXCEPT !.pc = "threw", !.error = "store"]]
    /\ UNCHANGED <<ck, rk, store, everIndexed, ncalls, syllabi, events, req, nextId, removedDone, deleted, friendships>>

\* generateEmbedding answers (lines 27-32); lines 223-234 follow without an await
QueryEmbedOk(p) ==
    /\ call[p].op = "query" /\ call[p].pc = "embed"
    /\ \E v \in {EmbedOf(call[p].text)} :
       \E sorted \in SortOutcomes(ScoreAll(v, call[p].listing)) :
          call' = [call EXCEPT ![p] =
                     [@ EXCEPT !.pc = "returned",
                               !.log = Append(@, [input |-> <<call[p].text>>, output |-> <<v>>]),
                               !.result = TopSlice(sorted, QueryTopK)]]
    /\ UNCHANGED <<ck, rk, store, everIndexed, ncalls, syllabi, events, req, nextId, removedDone, deleted, friendships>>

QueryEmbedFail(p) ==
    /\ call[p].op = "query" /\ call[p].pc = "embed"
    /\ call' = [call EXCEPT ![p] = [@ EXCEPT !.pc = "threw", !.error = "embedding"]]
    /\ UNCHANGED <<ck, rk, store, everIndexed, ncalls, syllabi, events, req, nextId, removedDone, deleted, friendships>>

\* the steps of the calls in flight
CoreStep ==
    \E p \in Procs :
        \/ IndexEmbedOk(p) \/ IndexEmbedFail(p) \/ IndexInsertOk(p) \/ IndexInsertFail(p)
        \/ RemoveSome(p) \/ RemoveOk(p) \/ RemoveFail(p)
        \/ QueryFind(p) \/ QueryFindFail(p) \/ QueryEmbedOk(p) \/ QueryEmbedFail(p)

-----------------------------------------------------------------------------
(* routes/syllabus.ts: POST /upload (33-126) and DELETE /:id (157-179) *)

MaxDates == 1           \* most dates extractDatesFromText finds in one syllabus
MaxUploads == 1         \* uploads that reach syllabus.save() in one behaviour
MaxRequests == 2        \* HTTP requests sent in one behaviour

\* line 55, and textExtractor.ts line 35 (two words stand for the message)
ExtractionFailed == <<"[Text", " ", "extraction", " ", "failed]">>
OcrUnavailable == <<"[Image", " ", "uploaded]">>

\* what extractText may resolve to: no text, three words, the message of
\* extractFromImage's catch
ExtractedTexts == { << >>, <<"a", " ", "b", " ", "a">>, OcrUnavailable }

\* the n-th ObjectId
DocId(n) == IF n = 1 THEN "d1" ELSE IF n = 2 THEN "d2" ELSE <<"d", n>>

idleReq ==
    [kind |-> "none", pc |-> "idle", userId |-> "u1", className |-> "CS 101",
     text |-> << >>, id |-> "d1", chunksIndexed |-> 0, datesFound |-> 0,
     datesExtracted |-> 0, indexing |-> "none", status |-> 0,
     passages |-> 0, error |-> "none", body |-> {},
     target |-> "none", doc |-> 0, friendIds |-> {}, friendCount |-> 0]

FreeReq(p) == req[p].pc \in {"idle", "done"}

\* who sends the next request: the handlers treat all users alike, so the
\* first request of a behaviour is taken to be u1's
Senders == IF ncalls = 0 THEN {"u1"} ELSE Users

TakesReq(p) == FreeReq(p) /\ \A q \in Procs : q < p => ~FreeReq(q)

\* lines 75 and 89
Indexable(extractedText) == extractedText # << >> /\ extractedText # ExtractionFailed

\* the response is sent; the handler's locals that no response carries are gone
Respond(r, status) ==
    [r EXCEPT !.pc = "done", !.status = status, !.text = << >>, !.datesFound = 0]

\* lines 35-52: a request without file or class name is answered 400
UploadStart(p) ==
    /\ TakesReq(p) /\ ncalls < MaxRequests
    /\ \E u \in Senders, c \in ClassNames, wellFormed \in BOOLEAN :
          req' = [req EXCEPT ![p] =
                    IF wellFormed
                    THEN [idleReq EXCEPT !.kind = "upload", !.pc = "extract",
                                         !.userId = u, !.className = c]
                    ELSE Respond([idleReq EXCEPT !.kind = "upload", !.userId = u], 400)]
    /\ call' = [call EXCEPT ![p] = idleCall]
    /\ ncalls' = ncalls + 1
    /\ UNCHANGED <<ck, rk, store, everIndexed, syllabi, events, nextId, removedDone, deleted, friendships>>

\* lines 52-67: extractText resolves or rejects, then syllabus.save() is issued
UploadExtract(p) ==
    /\ req[p].kind = "upload" /\ req[p].pc = "extract"
    /\ \E t \in ExtractedTexts \cup {ExtractionFailed} :
          req' = [req EXCEPT ![p] = [@ EXCEPT !.pc = "save", !.text = t]]
    /\ UNCHANGED <<ck, rk, store, call, everIndexed, ncalls, syllabi, events, nextId, removedDone, deleted, friendships>>

\* lines 73-85 and 88-89 after the save: index, or skip both indexing and dates
AfterSave(r, id) ==
    IF Indexable(r.text)
    THEN [r EXCEPT !.pc = "index", !.id = id, !.indexing = "started"]
    ELSE Respond([r EXCEPT !.id = id, !.indexing = "skipped"], 201)

UploadSaveOk(p) ==
    /\ req[p].kind = "upload" /\ req[p].pc = "save"
    /\ nextId < MaxUploads
    /\ LET id == DocId(nextId + 1)
           r == AfterSave(req[p], id)
       IN  /\ syllabi' = syllabi \cup {[id |-> id, userId |-> req[p].userId,
                                       className |-> req[p].className, text |-> req[p].text]}
           /\ req' = [req EXCEPT ![p] = r]
           /\ call' = [call EXCEPT ![p] =
                         IF r.pc = "index"
                         THEN IndexEnter(p, r.userId, id, r.className, r.text)
                         ELSE idleCall]
    /\ nextId' = nextId + 1
    /\ UNCHANGED <<ck, rk, store, everIndexed, ncalls, events, removedDone, deleted, friendships>>

\* syllabus.save() rejects: lines 122-124
UploadSaveFail(p) ==
    /\ req[p].kind = "upload" /\ req[p].pc = "save"
    /\ req' = [req EXCEPT ![p] = Respond(@, 500)]
    /\ UNCHANGED <<ck, rk, store, call, everIndexed, ncalls, syllabi, events, nextId, removedDone, deleted, friendships>>

\* lines 77-82: the value of indexSyllabus, or 0 when it threw
ChunksIndexed(c) == IF c.pc = "returned" THEN c.value ELSE 0

\* the upload without the try/catch of lines 76-82: a rejection reaches line 122
AfterIndex_Propagates(r, c) ==
    IF c.pc = "threw" THEN Respond([r EXCEPT !.indexing = "threw"], 500)
    ELSE [r EXCEPT !.pc = "dates", !.indexing = c.pc, !.chunksIndexed = c.value]

\* lines 76-91: a rejection is caught and logged, then the dates are asked for
AfterIndex(r, c) ==
    [r EXCEPT !.pc = "dates", !.indexing = c.pc, !.chunksIndexed = ChunksIndexed(c)]

\* lines 77-91: indexSyllabus has settled, extractDatesFromText is issued
UploadAfterIndex(p) ==
    /\ req[p].kind = "upload" /\ req[p].pc = "index"
    /\ call[p].pc \in {"returned", "threw"}
    /\ req' = [req EXCEPT ![p] = AfterIndex(@, call[p])]
    /\ call' = [call EXCEPT ![p] = idleCall]
    /\ UNCHANGED <<ck, rk, store, everIndexed, ncalls, syllabi, events, nextId, removedDone, deleted, friendships>>

\* lines 91-103: the dates arrive; with none the response follows
UploadDatesOk(p) ==
    /\ req[p].kind = "upload" /\ req[p].pc = "dates"
    /\ \E n \in 0..MaxDates :
          req' = [req EXCEPT ![p] =
                    IF n > 0 THEN [@ EXCEPT !.pc = "events", !.datesFound = n]
                    ELSE Respond(@, 201)]
    /\ UNCHANGED <<ck, rk, store, call, everIndexed, ncalls, syllabi, events, nextId, removedDone, deleted, friendships>>

\* lines 107-109
UploadDatesFail(p) ==
    /\ req[p].kind = "upload" /\ req[p].pc = "dates"
    /\ req' = [req EXCEPT ![p] = Respond(@, 201)]
    /\ UNCHANGED <<ck, rk, store, call, everIndexed, ncalls, syllabi, events, nextId, removedDone, deleted, friendships>>

EventsOf(r) ==
    { [userId |-> r.userId, syllabusId |-> r.id, n |-> k] : k \in 1..r.datesFound }

\* lines 103-105
UploadEventsOk(p) ==
    /\ req[p].kind = "upload" /\ req[p].pc = "events"
    /\ events' = events \cup EventsOf(req[p])
    /\ req' = [req EXCEPT ![p] = Respond([@ EXCEPT !.datesExtracted = req[p].datesFound], 201)]
    /\ UNCHANGED <<ck, rk, store, call, everIndexed, ncalls, syllabi, nextId, removedDone, deleted, friendships>>

UploadEventsFail(p) ==
    /\ req[p].kind = "upload" /\ req[p].pc = "events"
    /\ req' = [req EXCEPT ![p] = Respond(@, 201)]
    /\ UNCHANGED <<ck, rk, store, call, everIndexed, ncalls, syllabi, events, nextId, removedDone, deleted, friendships>>

\* line 159 is issued
DeleteStart(p) ==
    /\ TakesReq(p) /\ ncalls < MaxRequests
    /\ \E u \in Senders, id \in Docs :
          req' = [req EXCEPT ![p] = [idleReq EXCEPT !.kind = "delete", !.pc = "findDelete",
                                                    !.userId = u, !.id = id]]
    /\ call' = [call EXCEPT ![p] = idleCall]
    /\ ncalls' = ncalls + 1
    /\ UNCHANGED <<ck, rk, store, everIndexed, syllabi, events, nextId, removedDone, deleted, friendships>>

\* a lookup by _id alone
Owned_AnyUser(coll, id, userId) == { s \in coll : s.id = id }

\* Syllabus.findOneAndDelete({ _id, userId })
Owned(coll, id, userId) == { s \in coll : s.id = id /\ s.userId = userId }

\* lines 159-167
DeleteFindOk(p) ==
    /\ req[p].kind = "delete" /\ req[p].pc = "findDelete"
    /\ LET found == Owned(syllabi, req[p].id, req[p].userId)
       IN  IF found = {}
           THEN /\ req' = [req EXCEPT ![p] = Respond(@, 404)]
                /\ UNCHANGED <<syllabi, call, deleted>>
           ELSE /\ syllabi' = syllabi \ found
                /\ deleted' = deleted \cup {req[p].id}
                /\ req' = [req EXCEPT ![p] = [@ EXCEPT !.pc = "unindex"]]
                /\ call' = [call EXCEPT ![p] = RemoveEnter(p, req[p].userId, req[p].id)]
    /\ UNCHANGED <<ck, rk, store, everIndexed, ncalls, events, nextId, removedDone, friendships>>

\* lines 176-178
DeleteFindFail(p) ==
    /\ req[p].kind = "delete" /\ req[p].pc = "findDelete"
    /\ req' = [req EXCEPT ![p] = Respond(@, 500)]
    /\ UNCHANGED <<ck, rk, store, call, everIndexed, ncalls, syllabi, events, nextId, removedDone, deleted, friendships>>

\* lines 166-173: removeSyllabusFromIndex has settled (an error is only logged)
DeleteAfterUnindex(p) ==
    /\ req[p].kind = "delete" /\ req[p].pc = "unindex"
    /\ call[p].pc \in {"returned", "threw"}
    /\ req' = [req EXCEPT ![p] = [@ EXCEPT !.pc = "events", !.indexing = call[p].pc]]
    /\ call' = [call EXCEPT ![p] = idleCall]
    /\ UNCHANGED <<ck, rk, store, everIndexed, ncalls, syllabi, events, nextId, removedDone, deleted, friendships>>

\* CalendarEvent.deleteMany({ syllabusId }) (line 173) and line 175
DeleteEventsOk(p) ==
    /\ req[p].kind = "delete" /\ req[p].pc = "events"
    /\ events' = { e \in events : e.syllabusId # req[p].id }
    /\ req' = [req EXCEPT ![p] = Respond(@, 200)]
    /\ UNCHANGED <<ck, rk, store, call, everIndexed, ncalls, syllabi, nextId, removedDone, deleted, friendships>>

DeleteEventsFail(p) ==
    /\ req[p].kind = "delete" /\ req[p].pc = "events"
    /\ req' = [req EXCEPT ![p] = Respond(@, 500)]
    /\ UNCHANGED <<ck, rk, store, call, everIndexed, ncalls, syllabi, events, nextId, removedDone, deleted, friendships>>

-----------------------------------------------------------------------------
(* routes/syllabus.ts: GET / (129-139) and GET /:id (142-154) *)

\* .select('-extractedText -fileData')
WithoutText(s) == [id |-> s.id, userId |-> s.userId, className |-> s.className]

\* Syllabus.find({ userId }) (line 131)
SyllabiOf(coll, userId) == { s \in coll : s.userId = userId }

GetListStart(p) ==
    /\ TakesReq(p) /\ ncalls < MaxRequests
    /\ \E u \in Senders :
          req' = [req EXCEPT ![p] = [idleReq EXCEPT !.kind = "list", !.pc = "find", !.userId = u]]
    /\ call' = [call EXCEPT ![p] = idleCall]
    /\ ncalls' = ncalls + 1
    /\ UNCHANGED <<ck, rk, store, everIndexed, syllabi, events, nextId, removedDone, deleted, friendships>>

\* lines 131-135
GetListOk(p) ==
    /\ req[p].kind = "list" /\ req[p].pc = "find"
    /\ req' = [req EXCEPT ![p] =
                 Respond([@ EXCEPT !.body = { WithoutText(s) : s \in SyllabiOf(syllabi, req[p].userId) }],
                         200)]
    /\ UNCHANGED <<ck, rk, store, call, everIndexed, ncalls, syllabi, events, nextId, removedDone, deleted, friendships>>

\* lines 136-138
GetListFail(p) ==
    /\ req[p].kind = "list" /\ req[p].pc = "find"
    /\ req' = [req EXCEPT ![p] = Respond(@, 500)]
    /\ UNCHANGED <<ck, rk, store, call, everIndexed, ncalls, syllabi, events, nextId, removedDone, deleted, friendships>>

GetOneStart(p) ==
    /\ TakesReq(p) /\ ncalls < MaxRequests
    /\ \E u \in Senders, id \in Docs :
          req' = [req EXCEPT ![p] = [idleReq EXCEPT !.kind = "get", !.pc = "find",
                                                    !.userId = u, !.id = id]]
    /\ call' = [call EXCEPT ![p] = idleCall]
    /\ ncalls' = ncalls + 1
    /\ UNCHANGED <<ck, rk, store, everIndexed, syllabi, events, nextId, removedDone, deleted, friendships>>

\* lines 144-150: Syllabus.findOne({ _id, userId })
GetOneOk(p) ==
    /\ req[p].kind = "get" /\ req[p].pc = "find"
    /\ LET found == Owned(syllabi, req[p].id, req[p].userId)
       IN  req' = [req EXCEPT ![p] =
                     IF found = {} THEN Respond(@, 404)
                     ELSE Respond([@ EXCEPT !.body = found], 200)]
    /\ UNCHANGED <<ck, rk, store, call, everIndexed, ncalls, syllabi, events, nextId, removedDone, deleted, friendships>>

\* lines 151-153
GetOneFail(p) ==
    /\ req[p].kind = "get" /\ req[p].pc = "find"
    /\ req' = [req EXCEPT ![p] = Respond(@, 500)]
    /\ UNCHANGED <<ck, rk, store, call, everIndexed, ncalls, syllabi, events, nextId, removedDone, deleted, friendships>>

-----------------------------------------------------------------------------
(* routes/ai.ts (src/unnamed/part_003): POST /chat (10-71) *)

\* lines 12-22: without a question 400, else queryRAG(userId, question, 6)
ChatStart(p) ==
    /\ TakesReq(p) /\ ncalls < MaxRequests
    /\ \E u \in Senders, hasQuestion \in BOOLEAN :
          /\ req' = [req EXCEPT ![p] =
                       IF hasQuestion
                       THEN [idleReq EXCEPT !.kind = "chat", !.pc = "query", !.userId = u]
                       ELSE Respond([idleReq EXCEPT !.kind = "chat", !.userId = u], 400)]
          /\ call' = [call EXCEPT ![p] = IF hasQuestion THEN QueryEnter(p, u) ELSE idleCall]
    /\ ncalls' = ncalls + 1
    /\ UNCHANGED <<ck, rk, store, everIndexed, syllabi, events, nextId, removedDone, deleted, friendships>>

\* the handler without the early return of lines 24-30
AfterQuery_AlwaysComposes(r, c) ==
    IF c.pc = "threw" THEN Respond([r EXCEPT !.error = c.error], 500)
    ELSE [r EXCEPT !.pc = "compose", !.passages = Len(c.result)]

\* a handler that answers a failed queryRAG as if nothing had been found
AfterQuery_Degrades(r, c) ==
    IF c.pc = "threw" \/ Len(c.result) = 0
    THEN Respond([r EXCEPT !.indexing = "canned", !.error = c.error], 200)
    ELSE [r EXCEPT !.pc = "compose", !.passages = Len(c.result)]

\* lines 22-60 and 67-70: queryRAG has settled.  A rejection reaches the catch
\* (500); no passage gives the fixed answer with sources []; else the context
\* is built from the passages and chatCompletion is issued
AfterQuery(r, c) ==
    IF c.pc = "threw" THEN Respond([r EXCEPT !.error = c.error], 500)
    ELSE IF Len(c.result) = 0 THEN Respond([r EXCEPT !.indexing = "canned"], 200)
    ELSE [r EXCEPT !.pc = "compose", !.passages = Len(c.result)]

ChatAfterQuery(p) ==
    /\ req[p].kind = "chat" /\ req[p].pc = "query"
    /\ call[p].pc \in {"returned", "threw"}
    /\ req' = [req EXCEPT ![p] = AfterQuery(@, call[p])]
    /\ call' = [call EXCEPT ![p] = idleCall]
    /\ UNCHANGED <<ck, rk, store, everIndexed, ncalls, syllabi, events, nextId, removedDone, deleted, friendships>>

\* lines 60-66: chatCompletion answers
ChatComposeOk(p) ==
    /\ req[p].kind = "chat" /\ req[p].pc = "compose"
    /\ req' = [req EXCEPT ![p] = Respond([@ EXCEPT !.indexing = "composed"], 200)]
    /\ UNCHANGED <<ck, rk, store, call, everIndexed, ncalls, syllabi, events, nextId, removedDone, deleted, friendships>>

\* lines 67-70: chatCompletion fails
ChatComposeFail(p) ==
    /\ req[p].kind = "chat" /\ req[p].pc = "compose"
    /\ req' = [req EXCEPT ![p] = Respond(@, 500)]
    /\ UNCHANGED <<ck, rk, store, call, everIndexed, ncalls, syllabi, events, nextId, removedDone, deleted, friendships>>

-----------------------------------------------------------------------------
(* Spec: any sequence and interleaving of ragPipeline calls by two owners *)

CallIndex(p) ==
    /\ Takes(p) /\ ncalls < MaxCalls
    /\ \E u \in Users, d \in Docs, c \in ClassNames :
       \E t \in TextsOf(u) :
          call' = [call EXCEPT ![p] = IndexEnter(p, u, d, c, t)]
    /\ ncalls' = ncalls + 1
    /\ UNCHANGED <<ck, rk, store, everIndexed, syllabi, events, req, nextId, removedDone, deleted, friendships>>

CallRemove(p) ==
    /\ Takes(p) /\ ncalls < MaxCalls
    /\ \E u \in Users, d \in Docs :
          call' = [call EXCEPT ![p] = RemoveEnter(p, u, d)]
    /\ ncalls' = ncalls + 1
    /\ UNCHANGED <<ck, rk, store, everIndexed, syllabi, events, req, nextId, removedDone, deleted, friendships>>

CallQuery(p) ==
    /\ Takes(p) /\ ncalls < MaxCalls
    /\ \E u \in Users :
          call' = [call EXCEPT ![p] = QueryEnter(p, u)]
    /\ ncalls' = ncalls + 1
    /\ UNCHANGED <<ck, rk, store, everIndexed, syllabi, events, req, nextId, removedDone, deleted, friendships>>

Init ==
    /\ ck = ckOff /\ rk = rkOff
    /\ store = << >>
    /\ call = [p \in Procs |-> idleCall]
    /\ everIndexed = {}
    /\ ncalls = 0
    /\ syllabi = {} /\ events = {}
    /\ req = [p \in Procs |-> idleReq]
    /\ nextId = 0
    /\ removedDone = {}
    /\ deleted = {}
    /\ friendships = {}

Next ==
    \/ \E p \in Procs : CallIndex(p)
    \/ \E p \in Procs : CallRemove(p)
    \/ \E p \in Procs : CallQuery(p)
    \/ CoreStep

Spec == Init /\ [][Next]_vars

-----------------------------------------------------------------------------
(* SpecEmbed: generateEmbeddings (azureAI.ts 35-53) on every short list of texts *)

MaxTexts == 5           \* longest list of texts given to generateEmbeddings alone

EmbedTexts == { <<"a">>, <<"b">> }

TextLists == UNION { [1..n -> EmbedTexts] : n \in 0..MaxTexts }

\* lines 36-45: up to the first await; with no text the loop body never runs
\* and line 52 returns []
GenerateEnter(texts) ==
    LET fresh == [idleCall EXCEPT !.op = "embedAll", !.chunks = texts]
    IN  IF 0 < Len(texts)
        THEN [fresh EXCEPT !.pc = "embed", !.i = 0, !.issued = 1]
        ELSE [fresh EXCEPT !.pc = "returned", !.result = << >>]

\* lines 45-52: the batch is answered; the next is issued or the vectors returned
GenerateBatchOk(p) ==
    /\ call[p].op = "embedAll" /\ call[p].pc = "embed"
    /\ LET c == AfterBatch(call[p], EmbedBatch(NextBatch(call[p].chunks, call[p].i)))
       IN  call' = [call EXCEPT ![p] =
                      IF c.pc = "insert"
                      THEN [c EXCEPT !.pc = "returned", !.result = c.allEmbeddings]
                      ELSE c]
    /\ UNCHANGED <<ck, rk, store, everIndexed, ncalls, syllabi, events, req, nextId, removedDone, deleted, friendships>>

\* line 45 rejects
GenerateBatchFail(p) ==
    /\ call[p].op = "embedAll" /\ call[p].pc = "embed"
    /\ call' = [call EXCEPT ![p] = [@ EXCEPT !.pc = "threw", !.error = "embedding"]]
    /\ UNCHANGED <<ck, rk, store, everIndexed, ncalls, syllabi, events, req, nextId, removedDone, deleted, friendships>>

InitEmbed ==
    /\ ck = ckOff /\ rk = rkOff
    /\ store = << >>
    /\ \E texts \in TextLists :
          call = [p \in Procs |-> IF p = 1 THEN GenerateEnter(texts) ELSE idleCall]
    /\ everIndexed = {}
    /\ ncalls = 1
    /\ syllabi = {} /\ events = {}
    /\ req = [p \in Procs |-> idleReq]
    /\ nextId = 0
    /\ removedDone = {}
    /\ deleted = {}
    /\ friendships = {}

NextEmbed ==
    \/ \E p \in Procs : GenerateBatchOk(p)
    \/ \E p \in Procs : GenerateBatchFail(p)

SpecEmbed == InitEmbed /\ [][NextEmbed]_vars

-----------------------------------------------------------------------------
(* SpecChunk: chunkText on every short text and every (chunkSize, overlap) *)

InitChunk ==
    /\ ChunkInit /\ rk = rkOff
    /\ store = << >>
    /\ call = [p \in Procs |-> idleCall]
    /\ everIndexed = {}
    /\ ncalls = 0
    /\ syllabi = {} /\ events = {}
    /\ req = [p \in Procs |-> idleReq]
    /\ nextId = 0
    /\ removedDone = {}
    /\ deleted = {}
    /\ friendships = {}

NextChunk == ChunkSplit \/ ChunkIterate \/ ChunkReturn

SpecChunk == InitChunk /\ [][NextChunk]_vars

-----------------------------------------------------------------------------
(* SpecRank: the ranking on every short listing *)

InitRank ==
    /\ ck = ckOff /\ RankInit
    /\ store = << >>
    /\ call = [p \in Procs |-> idleCall]
    /\ everIndexed = {}
    /\ ncalls = 0
    /\ syllabi = {} /\ events = {}
    /\ req = [p \in Procs |-> idleReq]
    /\ nextId = 0
    /\ removedDone = {}
    /\ deleted = {}
    /\ friendships = {}

NextRank == RankScore \/ RankSort \/ RankSlice

SpecRank == InitRank /\ [][NextRank]_vars

-----------------------------------------------------------------------------
(* SpecRoutes: uploads, deletes, reads and chats of two users, interleaved *)

NextRoutes ==
    \/ \E p \in Procs : UploadStart(p)
    \/ \E p \in Procs : UploadExtract(p)
    \/ \E p \in Procs : UploadSaveOk(p)
    \/ \E p \in Procs : UploadSaveFail(p)
    \/ \E p \in Procs : UploadAfterIndex(p)
    \/ \E p \in Procs : UploadDatesOk(p)
    \/ \E p \in Procs : UploadDatesFail(p)
    \/ \E p \in Procs : UploadEventsOk(p)
    \/ \E p \in Procs : UploadEventsFail(p)
    \/ \E p \in Procs : DeleteStart(p)
    \/ \E p \in Procs : DeleteFindOk(p)
    \/ \E p \in Procs : DeleteFindFail(p)
    \/ \E p \in Procs : DeleteAfterUnindex(p)
    \/ \E p \in Procs : DeleteEventsOk(p)
    \/ \E p \in Procs : DeleteEventsFail(p)
    \/ \E p \in Procs : GetListStart(p)
    \/ \E p \in Procs : GetListOk(p)
    \/ \E p \in Procs : GetListFail(p)
    \/ \E p \in Procs : GetOneStart(p)
    \/ \E p \in Procs : GetOneOk(p)
    \/ \E p \in Procs : GetOneFail(p)
    \/ \E p \in Procs : ChatStart(p)
    \/ \E p \in Procs : ChatAfterQuery(p)
    \/ \E p \in Procs : ChatComposeOk(p)
    \/ \E p \in Procs : ChatComposeFail(p)
    \/ CoreStep

SpecRoutes == Init /\ [][NextRoutes]_vars

-----------------------------------------------------------------------------
(* routes/friends.ts: the Friendship collection and its handlers *)

MaxFriendCalls == 3     \* friends requests sent in one behaviour

FriendUsers == {"u1", "u2", "u3"}

\* authenticateToken: the caller is any of the users
FriendSenders == FriendUsers

\* the response is sent; the handler's locals are gone
FriendRespond(r, status) ==
    [Respond(r, status) EXCEPT !.target = "none", !.doc = 0, !.friendIds = {},
                               !.friendCount = 0]

\* the $or of lines 62-65: a record between the two users, in either direction
Between(coll, a, b) ==
    { f \in coll : \/ f.requester = a /\ f.recipient = b
                   \/ f.requester = b /\ f.recipient = a }

\* lines 40-58: the recipient is looked up.  target "" stands for a body with
\* neither userId nor email (400), "nobody" for an unknown user (404), the
\* caller's own id is refused (400); else findOne of line 61 is issued
RequestStart(p) ==
    /\ TakesReq(p) /\ ncalls < MaxFriendCalls
    /\ \E u \in FriendSenders, t \in FriendUsers \cup {"", "nobody"} :
          LET r == [idleReq EXCEPT !.kind = "request", !.userId = u, !.target = t]
          IN  req' = [req EXCEPT ![p] =
                        IF t = "" THEN FriendRespond(r, 400)
                        ELSE IF t = "nobody" THEN FriendRespond(r, 404)
                        ELSE IF t = u THEN FriendRespond(r, 400)
                        ELSE [r EXCEPT !.pc = "check"]]
    /\ ncalls' = ncalls + 1
    /\ UNCHANGED <<ck, rk, store, call, everIndexed, syllabi, events, nextId, removedDone, deleted, friendships>>

\* lines 61-76: an existing record in either direction is answered 400
RequestCheck(p) ==
    /\ req[p].kind = "request" /\ req[p].pc = "check"
    /\ req' = [req EXCEPT ![p] =
                 IF Between(friendships, req[p].userId, req[p].target) # {}
                 THEN FriendRespond(@, 400)
                 ELSE [@ EXCEPT !.pc = "create"]]
    /\ UNCHANGED <<ck, rk, store, call, everIndexed, ncalls, syllabi, events, nextId, removedDone, deleted, friendships>>

\* friendshipSchema.index({ requester: 1, recipient: 1 }, { unique: true })
Duplicate(coll, requester, recipient) ==
    \E f \in coll : f.requester = requester /\ f.recipient = recipient

\* lines 78-83: Friendship.create; a duplicate key is rejected (lines 84-87)
RequestCreate(p) ==
    /\ req[p].kind = "request" /\ req[p].pc = "create"
    /\ IF Duplicate(friendships, req[p].userId, req[p].target)
       THEN /\ req' = [req EXCEPT ![p] = FriendRespond(@, 500)]
            /\ UNCHANGED <<friendships, nextId>>
       ELSE /\ friendships' = friendships \cup
                   {[id |-> nextId + 1, requester |-> req[p].userId,
                     recipient |-> req[p].target, status |-> "pending"]}
            /\ nextId' = nextId + 1
            /\ req' = [req EXCEPT ![p] = FriendRespond(@, 201)]
    /\ UNCHANGED <<ck, rk, store, call, everIndexed, ncalls, syllabi, events, removedDone, deleted>>

\* a query or a write of a friends handler is rejected by the store: the catch
\* of the handler answers 500
FriendStoreFail(p) ==
    /\ req[p].kind \in {"request", "accept", "reject", "unfriend"}
    /\ req[p].pc \in {"check", "create", "find", "save", "delete"}
    /\ req' = [req EXCEPT ![p] = FriendRespond(@, 500)]
    /\ UNCHANGED <<ck, rk, store, call, everIndexed, ncalls, syllabi, events, nextId, removedDone, deleted, friendships>>

\* the ids a client may name: those of the records, and one of no record
FriendshipIds == { f.id : f \in friendships } \cup {0}

\* POST /accept/:id, POST /reject/:id, DELETE /:id: the findOne is issued
LookupStart(p) ==
    /\ TakesReq(p) /\ ncalls < MaxFriendCalls
    /\ \E u \in FriendSenders, id \in FriendshipIds, k \in {"accept", "reject", "unfriend"} :
          req' = [req EXCEPT ![p] =
                    [idleReq EXCEPT !.kind = k, !.pc = "find", !.userId = u, !.doc = id]]
    /\ ncalls' = ncalls + 1
    /\ UNCHANGED <<ck, rk, store, call, everIndexed, syllabi, events, nextId, removedDone, deleted, friendships>>

\* the filters of lines 113-117, 136-140 and 182-186
Found(coll, kind, id, userId) ==
    { f \in coll :
        /\ f.id = id
        /\ IF kind = "accept" THEN f.recipient = userId /\ f.status = "pending"
           ELSE IF kind = "reject"
                THEN (f.recipient = userId \/ f.requester = userId) /\ f.status = "pending"
                ELSE (f.recipient = userId \/ f.requester = userId) /\ f.status = "accepted" }

\* the findOne resolves: without a document 404, else the write is issued
LookupFind(p) ==
    /\ req[p].kind \in {"accept", "reject", "unfriend"} /\ req[p].pc = "find"
    /\ req' = [req EXCEPT ![p] =
                 IF Found(friendships, req[p].kind, req[p].doc, req[p].userId) = {}
                 THEN FriendRespond(@, 404)
                 ELSE [@ EXCEPT !.pc = IF req[p].kind = "accept" THEN "save" ELSE "delete"]]
    /\ UNCHANGED <<ck, rk, store, call, everIndexed, ncalls, syllabi, events, nextId, removedDone, deleted, friendships>>

\* lines 124-127: friendship.save() updates the record with the document's _id;
\* when the record is gone nothing is written (Mongoose then rejects the save
\* with DocumentNotFoundError, or resolves, depending on its version)
AcceptSave(p) ==
    /\ req[p].kind = "accept" /\ req[p].pc = "save"
    /\ IF \E f \in friendships : f.id = req[p].doc
       THEN /\ friendships' = { IF f.id = req[p].doc THEN [f EXCEPT !.status = "accepted"] ELSE f :
                                  f \in friendships }
            /\ req' = [req EXCEPT ![p] = FriendRespond(@, 200)]
       ELSE /\ UNCHANGED friendships
            /\ \E status \in {200, 500} : req' = [req EXCEPT ![p] = FriendRespond(@, status)]
    /\ UNCHANGED <<ck, rk, store, call, everIndexed, ncalls, syllabi, events, nextId, removedDone, deleted>>

\* lines 147-148 and 193-194: friendship.deleteOne() deletes the record with
\* the document's _id
LookupDelete(p) ==
    /\ req[p].kind \in {"reject", "unfriend"} /\ req[p].pc = "delete"
    /\ friendships' = { f \in friendships : f.id # req[p].doc }
    /\ req' = [req EXCEPT ![p] = FriendRespond(@, 200)]
    /\ UNCHANGED <<ck, rk, store, call, everIndexed, ncalls, syllabi, events, nextId, removedDone, deleted>>

-----------------------------------------------------------------------------
(* routes/friends.ts: GET /progress, /class-overlap, /event-friends/:eventId *)

\* s.toLowerCase().replace(/[^a-z0-9]/g, '') on the names the events carry
Normalize(s) ==
    CASE s = "CS 101" -> "cs101"
      [] s = "cs101" -> "cs101"
      [] s = "HW 1" -> "hw1"
      [] s = "hw1" -> "hw1"
      [] s = "MATH 2" -> "math2"
      [] s = "Quiz" -> "quiz"
      [] OTHER -> s

\* `${normalize(className)}::${normalize(title)}`
KeyOf(e) == <<Normalize(e.className), Normalize(e.title)>>

\* the calendar events of the three users: u1 and u2 share a homework under
\* differently written names, u3 has it too, u2 has a quiz of another class
CalendarOf(s2, s3) ==
    { [id |-> "e1", userId |-> "u1", className |-> "CS 101", title |-> "HW 1", status |-> "todo"],
      [id |-> "e2", userId |-> "u2", className |-> "cs101", title |-> "hw1", status |-> s2],
      [id |-> "e3", userId |-> "u3", className |-> "CS 101", title |-> "HW 1", status |-> s3],
      [id |-> "e4", userId |-> "u2", className |-> "MATH 2", title |-> "Quiz", status |-> "todo"] }

EventIds == {"e1", "e2"}

\* a find that lists the records whatever their status
AcceptedOf_AnyStatus(coll, userId) ==
    { f \in coll : f.requester = userId \/ f.recipient = userId }

\* Friendship.find({ $or: [{ requester }, { recipient }], status: 'accepted' })
AcceptedOf(coll, userId) ==
    { f \in coll : (f.requester = userId \/ f.recipient = userId) /\ f.status = "accepted" }

\* f.requester.toString() === req.userId ? f.recipient : f.requester
OtherParty(f, userId) == IF f.requester = userId THEN f.recipient ELSE f.requester

\* CalendarEvent.find({ userId })
EventsOfUser(coll, userId) == { e \in coll : e.userId = userId }

\* CalendarEvent.find({ userId: { $in: friendIds } })
EventsOfUsers(coll, ids) == { e \in coll : e.userId \in ids }

\* the three GETs: /event-friends/:eventId first looks up the caller's event
\* (lines 275-279), the others start with the Friendship.find
ViewStart(p) ==
    /\ TakesReq(p) /\ ncalls < MaxFriendCalls
    /\ \E u \in FriendSenders, k \in {"progress", "overlap", "eventFriends"}, ev \in EventIds :
          LET r == [idleReq EXCEPT !.kind = k, !.userId = u, !.pc = "friends"]
          IN  req' = [req EXCEPT ![p] =
                        IF k # "eventFriends" THEN r
                        ELSE IF \E e \in EventsOfUser(events, u) : e.id = ev
                             THEN [r EXCEPT !.id = ev]
                             ELSE FriendRespond([r EXCEPT !.id = ev], 404)]
    /\ ncalls' = ncalls + 1
    /\ UNCHANGED <<ck, rk, store, call, everIndexed, syllabi, events, nextId, removedDone, deleted, friendships>>

\* lines 328-343, 206-218, 282-294: the friend ids; without any, the empty answer
ViewFriends(p) ==
    /\ req[p].kind \in {"progress", "overlap", "eventFriends"} /\ req[p].pc = "friends"
    /\ LET fs == AcceptedOf(friendships, req[p].userId)
           ids == { OtherParty(f, req[p].userId) : f \in fs }
       IN  req' = [req EXCEPT ![p] =
                     IF ids = {} THEN FriendRespond(@, 200)
                     ELSE [@ EXCEPT !.pc = "events", !.friendIds = ids,
                                    !.friendCount = Cardinality(fs)]]
    /\ UNCHANGED <<ck, rk, store, call, everIndexed, ncalls, syllabi, events, nextId, removedDone, deleted, friendships>>

\* lines 345-382: per event of the caller, the friends' events of the same
\* normalized class and title, counted by status
Progress(coll, userId, ids) ==
    LET myEvents == EventsOfUser(coll, userId)
        myClassNorms == { Normalize(e.className) : e \in myEvents }
        friendEvents == { fe \in EventsOfUsers(coll, ids) :
                            Normalize(fe.className) \in myClassNorms }
        Hits(ev) == { fe \in friendEvents : KeyOf(fe) = KeyOf(ev) }
        Count(ev, st) == Cardinality({ fe \in Hits(ev) : fe.status = st })
    IN  { [event |-> ev.id, todo |-> Count(ev, "todo"),
           in_progress |-> Count(ev, "in_progress"), done |-> Count(ev, "done"),
           total |-> Cardinality(Hits(ev))] :
          ev \in { e \in myEvents : Hits(e) # {} } }

\* lines 221-263: classOverlap, the number of friends per class under the
\* caller's spelling of its name, and eventOverlap, per event of the caller the
\* number of friends with an event of the same normalized class and title
Overlap(coll, userId, ids) ==
    LET myEvents == EventsOfUser(coll, userId)
        myClassNorms == { Normalize(e.className) : e \in myEvents }
        matching == { fe \in EventsOfUsers(coll, ids) :
                        Normalize(fe.className) \in myClassNorms }
        InClass(c) == { fe.userId : fe \in { x \in matching : Normalize(x.className) = Normalize(c) } }
        Who(ev) == { fe.userId : fe \in { x \in matching : KeyOf(x) = KeyOf(ev) } }
    IN  { [of |-> "class", name |-> e.className, friends |-> Cardinality(InClass(e.className))] :
          e \in { x \in myEvents : InClass(x.className) # {} } }
        \cup
        { [of |-> "event", name |-> ev.id, friends |-> Cardinality(Who(ev))] :
          ev \in { e \in myEvents : Who(e) # {} } }

\* lines 297-314: the friends with an event of the same class and title
EventFriends(coll, userId, eventId, ids) ==
    LET mine == { e \in EventsOfUser(coll, userId) : e.id = eventId }
    IN  { [user |-> fe.userId, status |-> fe.status] :
          fe \in { x \in EventsOfUsers(coll, ids) : \E e \in mine : KeyOf(x) = KeyOf(e) } }

\* the events are read and the answer is sent
ViewEvents(p) ==
    /\ req[p].kind \in {"progress", "overlap", "eventFriends"} /\ req[p].pc = "events"
    /\ LET r == req[p]
           body == IF r.kind = "progress" THEN Progress(events, r.userId, r.friendIds)
                   ELSE IF r.kind = "overlap" THEN Overlap(events, r.userId, r.friendIds)
                   ELSE EventFriends(events, r.userId, r.id, r.friendIds)
       IN  req' = [req EXCEPT ![p] =
                     [FriendRespond([r EXCEPT !.body = body], 200) EXCEPT
                        !.friendCount = IF r.kind = "progress" THEN r.friendCount ELSE 0]]
    /\ UNCHANGED <<ck, rk, store, call, everIndexed, ncalls, syllabi, events, nextId, removedDone, deleted, friendships>>

\* a find of one of the three GETs is rejected by the store
ViewStoreFail(p) ==
    /\ req[p].kind \in {"progress", "overlap", "eventFriends"}
    /\ req[p].pc \in {"friends", "events"}
    /\ req' = [req EXCEPT ![p] = FriendRespond(@, 500)]
    /\ UNCHANGED <<ck, rk, store, call, everIndexed, ncalls, syllabi, events, nextId, removedDone, deleted, friendships>>

-----------------------------------------------------------------------------
(* SpecFriends: friends requests of three users, interleaved *)

InitFriends ==
    /\ ck = ckOff /\ rk = rkOff
    /\ store = << >>
    /\ call = [p \in Procs |-> idleCall]
    /\ everIndexed = {}
    /\ ncalls = 0
    /\ syllabi = {}
    /\ events = CalendarOf("done", "in_progress")
    /\ req = [p \in Procs |-> idleReq]
    /\ nextId = 0
    /\ removedDone = {}
    /\ deleted = {}
    /\ friendships = {}

NextFriends ==
    \/ \E p \in Procs : RequestStart(p)
    \/ \E p \in Procs : RequestCheck(p)
    \/ \E p \in Procs : RequestCreate(p)
    \/ \E p \in Procs : FriendStoreFail(p)
    \/ \E p \in Procs : LookupStart(p)
    \/ \E p \in Procs : LookupFind(p)
    \/ \E p \in Procs : AcceptSave(p)
    \/ \E p \in Procs : LookupDelete(p)
    \/ \E p \in Procs : ViewStart(p)
    \/ \E p \in Procs : ViewFriends(p)
    \/ \E p \in Procs : ViewEvents(p)
    \/ \E p \in Procs : ViewStoreFail(p)

SpecFriends == InitFriends /\ [][NextFriends]_vars

-----------------------------------------------------------------------------
(* Properties *)

Range(f) == { f[k] : k \in DOMAIN f }

RECURSIVE Flatten(_)
Flatten(seqs) == IF Len(seqs) = 0 THEN << >> ELSE Head(seqs) \o Flatten(Tail(seqs))

Inputs(log) == Flatten([k \in 1..Len(log) |-> log[k].input])
Outputs(log) == Flatten([k \in 1..Len(log) |-> log[k].output])

\* ceil(a / b) for a >= 0, b > 0
CeilDiv(a, b) == (a + b - 1) \div b

Listed(c) == c.op = "query" /\ (c.pc \in {"embed", "returned"} \/ c.error = "embedding")

\* C1 (Spec): tenant isolation.  The records a query of owner A ranks all have
\* userId = A, and every passage it returns is the text of a chunk that was
\* indexed with userId = A under that syllabusId, also when the other owner has
\* records under the same document id.
C1_TenantIsolation ==
    \A p \in Procs :
        Listed(call[p]) =>
            /\ \A k \in 1..Len(call[p].listing) : call[p].listing[k].userId = call[p].userId
            /\ \A k \in 1..Len(call[p].result) :
                  <<call[p].userId, call[p].result[k].syllabusId, call[p].result[k].text>>
                      \in everIndexed

\* a query has returned passages of a document id under which the other owner
\* has records too
C1_Witness ==
    \E p \in Procs :
        /\ call[p].op = "query" /\ call[p].pc = "returned" /\ Len(call[p].result) > 0
        /\ \E k \in 1..Len(store) :
              /\ store[k].userId # call[p].userId
              /\ store[k].syllabusId = call[p].result[1].syllabusId

\* C2 (SpecRoutes): delete completeness.  Once removeSyllabusFromIndex(owner,
\* doc) has completed the collection holds no record of (owner, doc), and a
\* queryRAG of that owner called after it returns no passage of doc.
C2_DeleteCompleteness ==
    /\ \A k \in 1..Len(store) : <<store[k].userId, store[k].syllabusId>> \notin removedDone
    /\ \A p \in Procs :
          call[p].op = "query" /\ call[p].pc = "returned" =>
             \A k \in 1..Len(call[p].result) :
                <<call[p].userId, call[p].result[k].syllabusId>> \notin call[p].removedAtCall

\* every piece of the split is a word: the text has no leading or trailing
\* whitespace and is not empty, so its word count is the number of pieces
AllWords(words) == \A k \in 1..Len(words) : words[k] # << >>

\* C3 (SpecChunk): chunk count.  For a text of w words, chunkSize c and overlap
\* o with 0 <= o < c, chunkText returns 1 chunk when w <= c and
\* ceil((w - c) / (c - o)) + 1 chunks when w > c.
C3_ChunkCount ==
    (ck.pc = "done" /\ ck.overlap < ck.chunkSize /\ AllWords(ck.words)) =>
        LET w == Len(ck.words)
            c == ck.chunkSize
            o == ck.overlap
        IN  Len(ck.chunks) = IF w <= c THEN 1 ELSE CeilDiv(w - c, c - o) + 1

\* C4 (Spec): empty input.  indexSyllabus on an empty or whitespace-only text
\* returns 0 without any Embedding Client call and without a write, and no
\* stored chunk has an empty or whitespace-only text.
C4_EmptyInputIndexesNothing ==
    /\ \A p \in Procs :
          (call[p].op = "index" /\ IsBlank(call[p].text)) =>
              /\ call[p].pc = "returned" /\ call[p].value = 0
              /\ call[p].issued = 0 /\ call[p].inserted = << >>
    /\ \A k \in 1..Len(store) : NonBlank(store[k].text)

\* C5 (Spec): no-data short-circuit.  A queryRAG whose listing came back empty
\* has returned the empty result and has issued no Embedding Client call.
C5_NoDataShortCircuit ==
    \A p \in Procs :
        (Listed(call[p]) /\ Len(call[p].listing) = 0) =>
            /\ call[p].pc = "returned" /\ call[p].result = << >>
            /\ call[p].issued = 0 /\ call[p].log = << >>

\* a query found nothing for its owner while the collection held records of
\* the other owner
C5_Witness ==
    \E p \in Procs :
        /\ call[p].op = "query" /\ call[p].pc = "returned"
        /\ Len(call[p].listing) = 0 /\ call[p].issued = 0
        /\ Len(store) > 0

NumericScores(scored) == \A k \in 1..Len(scored) : scored[k].score.kind = "num"

DistinctScores(scored) ==
    /\ NumericScores(scored)
    /\ \A j, k \in 1..Len(scored) : j # k => ~ScoreEq(scored[j].score, scored[k].score)

\* the candidates of rk, scored, in listing order
RkScored == ScoreAll(rk.queryEmbedding, rk.allEmbeddings)

\* C6 (SpecRank): top-K.  For N candidates with pairwise distinct scores and
\* topK = K >= 0 the ranking returns min(K, N) passages, in strictly descending
\* score order, and a candidate is returned exactly when fewer than K
\* candidates score higher than it.
C6_TopK ==
    (rk.pc = "done" /\ rk.topK >= 0 /\ DistinctScores(RkScored)) =>
        LET N == Len(rk.allEmbeddings)
            res == rk.result
            Higher(j) == { i \in 1..N : ScoreLess(RkScored[j].score, RkScored[i].score) }
        IN  /\ Len(res) = Min(rk.topK, N)
            /\ \A k \in 1..(Len(res) - 1) : ScoreLess(res[k + 1].score, res[k].score)
            /\ \A j \in 1..N : (RkScored[j] \in Range(res)) <=> (Cardinality(Higher(j)) < rk.topK)

\* three candidates with distinct scores, K = 2, and the best one listed last
C6_Witness ==
    /\ rk.pc = "done" /\ rk.topK = 2 /\ Len(rk.allEmbeddings) = 3
    /\ DistinctScores(RkScored)
    /\ Len(rk.result) = 2 /\ rk.result[1] = RkScored[3]

\* C7 (Spec): an embedding failure leaves the index as it was.  No step of an
\* indexSyllabus call that is still embedding, the failing one included,
\* changes the collection, and a call that threw for an embedding failure has
\* inserted nothing.
C7_EmbedFailureWritesNothing ==
    [][\A p \in Procs :
          (call[p].op = "index" /\ call[p].pc = "embed" /\ call'[p] # call[p]) =>
              /\ store' = store
              /\ call'[p].inserted = << >>]_vars

\* a later batch failed after an earlier one had been answered
C7_Witness ==
    \E p \in Procs :
        /\ call[p].op = "index" /\ call[p].pc = "threw" /\ call[p].error = "embedding"
        /\ Len(call[p].log) >= 1
        /\ call[p].inserted = << >>

StoredSyllabus(id, userId) == \E s \in syllabi : s.id = id /\ s.userId = userId

\* C8 (SpecRoutes): indexing never blocks the upload.  While indexSyllabus runs
\* for an upload its Syllabus record is already saved; whatever indexSyllabus
\* does, the upload answers 201 and its record stays stored (until a DELETE
\* request removes it); after a thrown indexing error chunksIndexed is 0.
C8_IndexingNeverBlocksUpload ==
    \A p \in Procs :
        (req[p].kind = "upload" /\ req[p].indexing # "none") =>
            /\ StoredSyllabus(req[p].id, req[p].userId) \/ req[p].id \in deleted
            /\ req[p].pc = "done" => req[p].status = 201
            /\ req[p].indexing = "threw" => req[p].chunksIndexed = 0

\* an upload whose indexing threw has answered 201 and its record is stored
C8_Witness ==
    \E p \in Procs :
        /\ req[p].kind = "upload" /\ req[p].pc = "done" /\ req[p].indexing = "threw"
        /\ req[p].status = 201
        /\ StoredSyllabus(req[p].id, req[p].userId)

C10_DimensionMismatchFailsClosed ==
    rk.pc = "done" =>
        \A k \in 1..Len(rk.result) :
            \E j \in 1..Len(rk.allEmbeddings) :
                /\ Len(rk.allEmbeddings[j].vector) = Len(rk.queryEmbedding)
                /\ rk.result[k] = RkScored[j]

\* C11 (Spec): all-or-nothing insert.  Of the n chunk records of one
\* indexSyllabus call either all n have been written or none, whatever the
\* outcome of its insertMany.
C11_AllOrNothingInsert ==
    \A p \in Procs :
        call[p].op = "index" =>
            Len(call[p].inserted) \in {0, Len(call[p].chunks)}

\* C12 (Spec): no partially-deleted document is observable.  While a
\* removeSyllabusFromIndex of (owner, doc) has deleted some records and has not
\* finished, the listing a queryRAG of that owner obtains holds no record of doc.
C12_NoPartialDeleteObserved ==
    [][\A p, q \in Procs :
          ( /\ call[p].op = "query" /\ call[p].pc = "find"
            /\ call'[p].pc \in {"embed", "returned"}
            /\ call[q].op = "remove" /\ call[q].pc = "delete" /\ call[q].i > 0
            /\ call[q].userId = call[p].userId ) =>
              Matching(call'[p].listing, call[q].userId, call[q].syllabusId) = << >>]_vars

\* C13 (SpecRoutes): no passages, no composer.  When queryRAG has returned no
\* passage the chat handler answers 200 with the fixed answer and never issues
\* chatCompletion; chatCompletion is issued, and has answered, only with at
\* least one passage in its context.
C13_NoPassagesNoComposer ==
    [][\A p \in Procs :
          req'[p].kind = "chat" =>
              /\ ( /\ req[p].kind = "chat" /\ req[p].pc = "query" /\ req'[p].pc # "query"
                   /\ call[p].pc = "returned" /\ Len(call[p].result) = 0 ) =>
                     /\ req'[p].pc = "done" /\ req'[p].status = 200
                     /\ req'[p].indexing = "canned" /\ req'[p].passages = 0
              /\ (req'[p].pc = "compose" \/ req'[p].indexing = "composed") =>
                     req'[p].passages >= 1
              /\ req'[p].indexing = "canned" => req'[p].passages = 0]_vars

\* a chat of an owner without chunks has been answered with the fixed answer
C13_Witness ==
    \E p \in Procs :
        /\ req[p].kind = "chat" /\ req[p].pc = "done" /\ req[p].status = 200
        /\ req[p].indexing = "canned" /\ req[p].passages = 0

\* C14 (SpecRoutes): a query failure propagates.  When the Embedding Client
\* fails on the question (the owner's listing was not empty) queryRAG throws
\* without a result, and the chat handler answers 500, not the fixed answer.
C14_QueryFailurePropagates ==
    [][\A p \in Procs :
          /\ ( /\ call[p].op = "query" /\ call[p].pc = "embed"
               /\ call'[p].op = "query" /\ call'[p].error = "embedding" ) =>
                 /\ Len(call[p].listing) >= 1
                 /\ call'[p].pc = "threw" /\ call'[p].result = << >>
          /\ ( /\ req[p].kind = "chat" /\ req[p].pc = "query" /\ req'[p].pc # "query"
               /\ call[p].error = "embedding" ) =>
                 /\ req'[p].pc = "done" /\ req'[p].status = 500
                 /\ req'[p].indexing # "canned" /\ req'[p].passages = 0]_vars

\* a chat of an owner with indexed chunks was answered 500 after the embedding
\* of its question had failed
C14_Witness ==
    \E p \in Procs :
        /\ req[p].kind = "chat" /\ req[p].pc = "done" /\ req[p].status = 500
        /\ req[p].error = "embedding"
        /\ \E k \in 1..Len(store) : store[k].userId = req[p].userId

IsZero(v) == \A k \in 1..Len(v) : v[k] = 0

Negated(v) == [k \in 1..Len(v) |-> 0 - v[k]]

\* the exact score is x
ScoreIs(s, x) ==
    /\ s.kind = "num" /\ s.mag2 > 0
    /\ Sgn(s.dot) = Sgn(x)
    /\ s.dot * s.dot = x * x * s.mag2

\* C15 (SpecRank): cosine score conventions.  Once the candidates are scored,
\* for a query vector and a stored vector of the same length the score is a
\* number with a non-zero divisor: 0 when either vector is zero, 0 when the dot
\* product is zero, 1 when the two are the same non-zero vector, -1 when one is
\* the negation of the other.
C15_CosineConventions ==
    rk.pc = "sort" =>
        \A k \in 1..Len(rk.allEmbeddings) :
            LET a == rk.queryEmbedding
                b == rk.allEmbeddings[k].vector
                s == rk.scored[k].score
            IN  Len(a) = Len(b) =>
                  /\ s.kind = "num" /\ s.mag2 > 0
                  /\ (IsZero(a) \/ IsZero(b)) => ScoreIs(s, 0)
                  /\ SumTo(a, b, Len(a)) = 0 => ScoreIs(s, 0)
                  /\ (a = b /\ ~IsZero(a)) => ScoreIs(s, 1)
                  /\ (b = Negated(a) /\ ~IsZero(a)) => ScoreIs(s, -1)

\* one ranking has scored a zero vector, the query vector itself and its negation
C15_Witness ==
    /\ rk.pc = "sort" /\ Len(rk.scored) = 3 /\ ~IsZero(rk.queryEmbedding)
    /\ \E i, j, k \in 1..Len(rk.allEmbeddings) :
          /\ IsZero(rk.allEmbeddings[i].vector)
          /\ Len(rk.allEmbeddings[i].vector) = Len(rk.queryEmbedding)
          /\ rk.allEmbeddings[j].vector = rk.queryEmbedding
          /\ rk.allEmbeddings[k].vector = Negated(rk.queryEmbedding)

\* C16 (Spec): idempotent removal.  A removeSyllabusFromIndex that completes
\* leaves no record of its (owner, document); when there was none it leaves the
\* collection as it was, so removing again changes nothing; the absence of
\* records is no error (the only error is a rejected deleteMany).
C16_IdempotentRemoval ==
    [][\A p \in Procs :
          (call[p].op = "remove" /\ call[p].pc = "delete" /\ call'[p].pc # "delete") =>
              LET u == call[p].userId
                  d == call[p].syllabusId
              IN  /\ call'[p].pc = "returned" =>
                        /\ Matching(store', u, d) = << >>
                        /\ DeleteMatching(store', u, d) = store'
                  /\ Matching(store, u, d) = << >> =>
                        /\ store' = store
                        /\ call'[p].pc = "threw" => call'[p].error = "store"]_vars

\* a removal of a pair that an earlier call had already removed has completed,
\* with records of the other owner under the same document id in the collection
C16_Witness ==
    \E p \in Procs :
        /\ call[p].op = "remove" /\ call[p].pc = "returned" /\ call[p].i = 0
        /\ <<call[p].userId, call[p].syllabusId>> \in call[p].removedAtCall
        /\ \E k \in 1..Len(store) :
              store[k].syllabusId = call[p].syllabusId /\ store[k].userId # call[p].userId

Quiescent == \A q \in Procs : FreeReq(q)

\* C17 (SpecRoutes): delete removes the syllabus and its events.  When a DELETE
\* has answered 'Syllabus deleted' and no request is in flight, neither the
\* Syllabus record nor a CalendarEvent with that syllabusId exists.
C17_DeleteRemovesSyllabusAndEvents ==
    Quiescent =>
        \A p \in Procs :
            (req[p].kind = "delete" /\ req[p].pc = "done" /\ req[p].status = 200) =>
                /\ ~ \E s \in syllabi : s.id = req[p].id
                /\ ~ \E e \in events : e.syllabusId = req[p].id

OthersSyllabus(id, userId) == \E s \in syllabi : s.id = id /\ s.userId # userId

\* C18 (SpecRoutes): private syllabi.  A step of a GET /, GET /:id or DELETE /:id
\* request of user A returns only syllabi of A, answers an id of another
\* user's syllabus with 404 (500 when the lookup fails) and leaves the syllabi,
\* chunk records and calendar events of every other user as they were.
C18_PrivateSyllabi ==
    [][\A p \in Procs :
          ( /\ req'[p].kind \in {"list", "get", "delete"}
            /\ (req'[p] # req[p] \/ call'[p] # call[p]) ) =>
              LET A == req'[p].userId
              IN  /\ \A s \in req'[p].body : s.userId = A
                  /\ \A B \in Users \ {A} :
                        /\ SyllabiOf(syllabi', B) = SyllabiOf(syllabi, B)
                        /\ FindByUser(store', B) = FindByUser(store, B)
                        /\ { e \in events' : e.userId = B } = { e \in events : e.userId = B }
                  /\ ( /\ req[p].kind \in {"get", "delete"}
                       /\ req[p].pc \in {"find", "findDelete"}
                       /\ OthersSyllabus(req[p].id, A) ) =>
                         /\ req'[p].pc = "done" /\ req'[p].status \in {404, 500}
                         /\ req'[p].body = {}]_vars

\* a GET /:id or DELETE /:id for the id of another user's syllabus has been
\* answered 404 and that syllabus is stored
C18_Witness ==
    \E p \in Procs :
        /\ req[p].kind \in {"get", "delete"} /\ req[p].pc = "done" /\ req[p].status = 404
        /\ OthersSyllabus(req[p].id, req[p].userId)

\* C19 (SpecRoutes): no orphaned chunks.  When no request is in flight every
\* chunk record's syllabusId is the id of a stored syllabus of the same owner.
C19_NoOrphanedChunks ==
    Quiescent =>
        \A k \in 1..Len(store) : StoredSyllabus(store[k].syllabusId, store[k].userId)

\* C20 (SpecChunk): overlap guard.  chunkText never runs its window loop with
\* a start index that does not advance: in the loop, the next start index is
\* greater than the current one.
C20_OverlapGuard ==
    ck.pc = "loop" => NextStart(ck.i, ck.chunkSize, ck.overlap) > ck.i

\* the windows of the claim: window i holds the tokens from i * (c - o) up to
\* i * (c - o) + c, cut at w, and the last window is the first to reach w
RECURSIVE ExpectedWindows(_, _, _, _)
ExpectedWindows(words, i, c, o) ==
    LET start == i * (c - o)
        chunk == Join(SubSeq(words, start + 1, Min(Len(words), start + c)))
    IN  IF start + c >= Len(words) THEN <<chunk>>
        ELSE <<chunk>> \o ExpectedWindows(words, i + 1, c, o)

\* C21 (SpecChunk): window boundaries.  For a text of w > chunkSize words and
\* 0 <= overlap < chunkSize, chunkText returns the windows
\* [i*(c-o), min(w, i*(c-o)+c)) joined by single spaces, in increasing i,
\* ending with the first window that reaches the end of the words.
C21_WindowBoundaries ==
    ( /\ ck.pc = "done" /\ ck.overlap < ck.chunkSize
      /\ AllWords(ck.words) /\ Len(ck.words) > ck.chunkSize ) =>
        ck.chunks = ExpectedWindows(ck.words, 0, ck.chunkSize, ck.overlap)

\* the position of a scored candidate in the listing (its text has that length)
ListedAt(c) == Len(c.text)

\* C22 (SpecEmbed): embedding batches.  generateEmbeddings sends the texts in
\* order, in provider calls of 1 to BatchSize inputs, with at most one call
\* outstanding; when it returns, the result has one vector per text, the i-th
\* being the vector returned for the i-th text; for no text it makes no call.
C22_EmbeddingBatches ==
    \A p \in Procs :
        call[p].op = "embedAll" =>
            LET c == call[p]
                sent == Inputs(c.log)
                outstanding == c.issued - Len(c.log)
            IN  /\ \A k \in 1..Len(c.log) : Len(c.log[k].input) \in 1..BatchSize
                /\ outstanding \in {0, 1}
                /\ outstanding = 1 <=> (c.pc = "embed" \/ c.error = "embedding")
                /\ Len(sent) <= Len(c.chunks) /\ sent = SubSeq(c.chunks, 1, Len(sent))
                /\ c.pc = "returned" =>
                      /\ sent = c.chunks
                      /\ Len(c.result) = Len(c.chunks)
                      /\ \A k \in 1..Len(c.chunks) : c.result[k] = EmbedOf(c.chunks[k])
                /\ Len(c.chunks) = 0 =>
                      c.pc = "returned" /\ c.issued = 0 /\ c.result = << >>

\* five texts have been embedded in three provider calls
C22_Witness ==
    \E p \in Procs :
        /\ call[p].op = "embedAll" /\ call[p].pc = "returned"
        /\ Len(call[p].chunks) = 5 /\ Len(call[p].log) = 3
        /\ call[p].result[5] = EmbedOf(call[p].chunks[5])

Outside(coll, userId, syllabusId) ==
    SelectSeq(coll, LAMBDA e : ~(e.userId = userId /\ e.syllabusId = syllabusId))

\* C24 (Spec): write scoping.  A step of removeSyllabusFromIndex(A, d) leaves
\* every record outside (A, d) as it was and adds none; a step of indexSyllabus
\* only appends records; a step of queryRAG leaves the collection unchanged.
C24_WriteScoping ==
    [][\A p \in Procs :
          call'[p] # call[p] =>
              /\ (call[p].op = "remove" /\ call[p].pc = "delete") =>
                    /\ Outside(store', call[p].userId, call[p].syllabusId)
                          = Outside(store, call[p].userId, call[p].syllabusId)
                    /\ Range(store') \subseteq Range(store)
                    /\ Len(store') <= Len(store)
              /\ (call[p].op = "index" /\ call[p].pc \in {"embed", "insert"}) =>
                    /\ Len(store') >= Len(store)
                    /\ SubSeq(store', 1, Len(store)) = store
              /\ (call[p].op = "query" /\ call[p].pc \in {"find", "embed"}) =>
                    store' = store]_vars

\* a removal of (A, d), a pair that had been indexed, has completed, and
\* records of the other owner under the same document id d are in the collection
C24_Witness ==
    \E p \in Procs :
        /\ call[p].op = "remove" /\ call[p].pc = "returned"
        /\ \E k \in 1..Len(store) :
              store[k].userId # call[p].userId /\ store[k].syllabusId = call[p].syllabusId
        /\ <<call[p].userId, call[p].syllabusId>> \in { <<e[1], e[2]>> : e \in everIndexed }

\* C25 (SpecRank): a negative topK is rejected.  The ranking never completes
\* with a passage list for a negative topK.
C25_NegativeTopKRejected ==
    rk.topK < 0 => rk.pc # "done"

FailedExtraction == { ExtractionFailed, OcrUnavailable }

\* C26 (SpecRoutes): a failed extraction is never indexed.  indexSyllabus is
\* never running on the text of a failed extraction (the sentinel of the
\* upload handler, the message of extractFromImage's catch), and no chunk
\* record holds a chunk of such a text.
C26_FailedExtractionNotIndexed ==
    /\ \A p \in Procs : call[p].op = "index" => call[p].text \notin FailedExtraction
    /\ \A k \in 1..Len(store) : \A f \in FailedExtraction :
          store[k].text \notin Range(chunkText(f, DefaultChunkSize, DefaultOverlap))

\* both slots hold a completed indexSyllabus of the same owner, for different
\* documents, and no other call was made
TwoIngests ==
    /\ ncalls = 2
    /\ \A p \in Procs : call[p].op = "index" /\ call[p].pc = "returned"
    /\ call[1].userId = call[2].userId
    /\ call[1].syllabusId # call[2].syllabusId

\* C27 (Spec): concurrent ingest of different documents.  After two
\* interleaved indexSyllabus calls of one owner for different documents have
\* completed, the records of each document are that call's chunks, in order,
\* chunkIndex 0..n-1 once each, with the vectors returned for them.
C27_ConcurrentIngestSafe ==
    TwoIngests =>
        \A p \in Procs :
            LET chunks == chunkText(call[p].text, DefaultChunkSize, DefaultOverlap)
                mine == Matching(store, call[p].userId, call[p].syllabusId)
            IN  /\ Len(mine) = Len(chunks)
                /\ \A k \in 1..Len(mine) :
                      mine[k] = [userId |-> call[p].userId, syllabusId |-> call[p].syllabusId,
                                 className |-> call[p].className, chunkIndex |-> k - 1,
                                 text |-> chunks[k], vector |-> Outputs(call[p].log)[k]]

\* two documents of three chunks each; the call that started second inserted first
C27_Witness ==
    /\ TwoIngests
    /\ call[1].value >= 3 /\ call[2].value >= 3
    /\ Len(store) >= 1 /\ store[1].syllabusId = call[2].syllabusId


\* the two users a Friendship record is between
Parties(f) == {f.requester, f.recipient}

\* C28 (SpecFriends): one friendship per pair.  At every moment, no Friendship
\* record has its requester as recipient, and no two records are between the
\* same two users, whichever direction each was requested in.
C28_OneFriendshipPerPair ==
    \A f, g \in friendships :
        /\ f.requester # f.recipient
        /\ f # g => Parties(f) # Parties(g)

\* the request p completes its write in this step
Completes(p, kind, pc) ==
    req[p].kind = kind /\ req[p].pc = pc /\ req'[p].pc = "done"

\* C29 (SpecFriends): friendship lifecycle.  In every step, a record that
\* appears is pending; a record whose status changes goes from pending to
\* accepted in a step of POST /accept/:id sent by its recipient; a record that
\* disappears was pending and is removed by a POST /reject/:id of one of its
\* parties, or was accepted and is removed by a DELETE /:id of one of them.
C29_FriendshipLifecycle ==
    [][ /\ \A f \in friendships' \ friendships :
              IF \E g \in friendships : g.id = f.id
              THEN \E g \in friendships, p \in Procs :
                      /\ g.id = f.id /\ g.status = "pending"
                      /\ f = [g EXCEPT !.status = "accepted"]
                      /\ Completes(p, "accept", "save")
                      /\ req[p].doc = g.id /\ req[p].userId = g.recipient
              ELSE f.status = "pending"
        /\ \A g \in friendships :
              (~ \E f \in friendships' : f.id = g.id) =>
                 \E p \in Procs :
                    /\ req[p].doc = g.id /\ req[p].userId \in Parties(g)
                    /\ \/ Completes(p, "reject", "delete") /\ g.status = "pending"
                       \/ Completes(p, "unfriend", "delete") /\ g.status = "accepted"
      ]_vars

\* the users with an accepted friendship with userId
AcceptedFriends(userId) ==
    { u \in FriendUsers :
        \E f \in friendships : f.status = "accepted" /\ Parties(f) = {u, userId} /\ u # userId }

\* the events of the given users that carry the class and title of the
\* caller's event with this id, under the normalization of the handlers
SameAssignment(userId, eventId, ids) ==
    { fe \in events :
        /\ fe.userId \in ids
        /\ \E e \in events :
              /\ e.userId = userId /\ e.id = eventId
              /\ Normalize(fe.className) = Normalize(e.className)
              /\ Normalize(fe.title) = Normalize(e.title) }

WithStatus(es, st) == Cardinality({ e \in es : e.status = st })

\* C30 (SpecFriends): friend data is visible only to accepted friends.  When
\* GET /progress, /class-overlap or /event-friends/:eventId of user A reads the
\* friendships, the friends it goes on with are exactly the users with an
\* accepted friendship with A at that moment, and without any the answer is
\* empty; every count and status of the answer is taken from the events of
\* those users alone, and in every progress entry total = todo + in_progress
\* + done.
C30_VisibleToAcceptedFriendsOnly ==
    [][ \A p \in Procs :
          req[p].kind \in {"progress", "overlap", "eventFriends"} =>
            /\ (req[p].pc = "friends" /\ req'[p].pc = "events") =>
                  /\ req'[p].friendIds = AcceptedFriends(req[p].userId)
                  /\ req'[p].friendIds # {}
            /\ (req[p].pc = "friends" /\ req'[p].pc = "done" /\ req'[p].status = 200) =>
                  /\ AcceptedFriends(req[p].userId) = {}
                  /\ req'[p].body = {}
            /\ (req[p].pc = "events" /\ req'[p].pc = "done" /\ req'[p].status = 200) =>
                  LET A == req[p].userId
                      ids == req[p].friendIds
                  IN  \A b \in req'[p].body :
                        CASE req[p].kind = "progress" ->
                               LET es == SameAssignment(A, b.event, ids)
                               IN  /\ b.todo = WithStatus(es, "todo")
                                   /\ b.in_progress = WithStatus(es, "in_progress")
                                   /\ b.done = WithStatus(es, "done")
                                   /\ b.total = b.todo + b.in_progress + b.done
                                   /\ b.total = Cardinality(es)
                          [] req[p].kind = "overlap" ->
                               IF b.of = "event"
                               THEN b.friends = Cardinality({ e.userId : e \in SameAssignment(A, b.name, ids) })
                               ELSE b.friends = Cardinality(
                                      { e.userId : e \in { x \in events :
                                          /\ x.userId \in ids
                                          /\ Normalize(x.className) = Normalize(b.name) } })
                          [] OTHER ->
                               \E e \in SameAssignment(A, req[p].id, ids) :
                                  b.user = e.userId /\ b.status = e.status
      ]_vars

\* GET /progress has answered a user who has an accepted friend and whose
\* assignment another user, not a friend, has as well: the entry counts the
\* friend's event alone
C30_Witness ==
    \E p \in Procs :
        /\ req[p].kind = "progress" /\ req[p].pc = "done" /\ req[p].status = 200
        /\ \E b \in req[p].body :
              /\ b.total = 1
              /\ Cardinality(SameAssignment(req[p].userId, b.event, FriendUsers \ {req[p].userId})) = 2

=============================================================================
